---- MODULE Spec2Model ----
(***************************************************************************)
(* A model of s2protocol/s2_cli.py: the event filters, the cache-handle    *)
(* translation and the pipeline that main() drives over one replay, from   *)
(* the opening of the archive (line 208) on; the --versions and --diff     *)
(* modes and the missing-file exit (lines 182-206) are not modelled.       *)
(*                                                                         *)
(* Python values are tagged records: PyInt, PyStr (a sequence of character *)
(* codes, Python 2 byte strings), PyList, PyTuple, PyDict (a function from *)
(* field names to values) and None.                                        *)
(***************************************************************************)
EXTENDS Integers, Sequences, FiniteSets, TLC

VARIABLES
    args,       \* the parsed command line (argparse namespace)
    pc,         \* where main() is
    filters,    \* the list `filters` of main()
    header,     \* the decoded header, None before it is decoded
    protocol,   \* the decoder versions.build returned, None before
    cur,        \* the element map() pulled from the decoder, None if none
    pulled,     \* elements pulled so far from the open sequence
    total,      \* elements pulled so far in the run
    log,        \* every process_event call so far: category and position
    seen,       \* what each filter's process received in the last call
    stats,      \* StatCollectionFilter._event_stats
    counted,    \* events that carried both _event and _bits, so far
    finished,   \* the filters whose finish() has been called, in call order
    out,        \* what was written to sys.stdout, in order: the filter that wrote
                \* and the event it rendered, or the report it printed
    errout,     \* what was written to sys.stderr
    status,     \* the exit status, -1 while running
    call        \* a function called on its own: its name, argument and result;
                \* None in a run of main

vars == <<args, pc, filters, header, protocol, cur, pulled, total, log, seen,
          stats, counted, finished, out, errout, status, call>>

---------------------------------------------------------------------------
(* Bounds *)

\* the elements the sequence decoders yield in one run, at most
MaxEvents == 2

\* the bytes of a cache handle given to cache_handle_uri on its own, at most
MaxHandleLen == 9

\* the items of a list of leaves given to TypeDumpFilter.process on its own, at most
MaxItems == 2

---------------------------------------------------------------------------
(* Python values *)

None == [t |-> "none"]
PyInt(n) == [t |-> "int", i |-> n]
PyStr(s) == [t |-> "str", s |-> s]
PyList(s) == [t |-> "list", items |-> s]
PyTuple(s) == [t |-> "tuple", items |-> s]
PyDict(f) == [t |-> "dict", d |-> f]

\* an exception raised by the evaluation of an expression
Raise == [t |-> "raise"]

\* type(value).__name__, as a string
TypeName(v) ==
    CASE v.t = "int" -> <<105, 110, 116>>
      [] v.t = "str" -> <<115, 116, 114>>
      [] v.t = "list" -> <<108, 105, 115, 116>>
      [] v.t = "tuple" -> <<116, 117, 112, 108, 101>>
      [] v.t = "dict" -> <<100, 105, 99, 116>>
      [] OTHER -> <<78, 111, 110, 101, 84, 121, 112, 101>>

---------------------------------------------------------------------------
(* TypeDumpFilter.process *)

\* a rewriting that does not enter mappings
RECURSIVE recurse_into_lists_only(_)
recurse_into_lists_only(value) ==
    IF value.t = "list"
    THEN PyList([k \in 1..Len(value.items) |-> recurse_into_lists_only(value.items[k])])
    ELSE PyTuple(<<PyStr(TypeName(value)), value>>)

RECURSIVE recurse_into(_)
recurse_into(value) ==
    IF value.t = "list"
    THEN PyList([k \in 1..Len(value.items) |-> recurse_into(value.items[k])])
    ELSE IF value.t = "dict"
    THEN PyDict([key \in DOMAIN value.d |-> recurse_into(value.d[key])])
    ELSE PyTuple(<<PyStr(TypeName(value)), value>>)

---------------------------------------------------------------------------
(* convert_fourcc, cache_handle_uri, process_init_data *)

\* the two lowercase hex digits of a byte, as character codes
HexDigit(n) == IF n < 10 THEN 48 + n ELSE 87 + n

b2a_hex(bytes) ==
    [k \in 1..(2 * Len(bytes)) |->
        IF k % 2 = 1 THEN HexDigit(bytes[(k + 1) \div 2] \div 16)
                     ELSE HexDigit(bytes[k \div 2] % 16)]

\* s[lo:hi] of Python, 0-based and clamped to the string
Slice(s, lo, hi) ==
    LET h == IF hi > Len(s) THEN Len(s) ELSE hi
    IN  IF lo >= h THEN <<>> ELSE SubSeq(s, lo + 1, h)

HexValue(c) == IF c >= 97 THEN c - 87 ELSE IF c >= 65 THEN c - 55 ELSE c - 48

\* a parse that takes the empty string for zero
int16_lenient(s) ==
    IF Len(s) = 0 THEN PyInt(0)
    ELSE IF Len(s) = 1 THEN PyInt(HexValue(s[1]))
    ELSE PyInt(16 * HexValue(s[1]) + HexValue(s[2]))

\* int(s, 16): ValueError on the empty string
int16(s) ==
    IF Len(s) = 0 THEN Raise
    ELSE IF Len(s) = 1 THEN PyInt(HexValue(s[1]))
    ELSE PyInt(16 * HexValue(s[1]) + HexValue(s[2]))

RECURSIVE fourcc_from(_, _)
fourcc_from(fourcc_hex, i) ==
    IF i >= 7 THEN PyStr(<<>>)
    ELSE LET n == int16(Slice(fourcc_hex, i, i + 2))
             rest == fourcc_from(fourcc_hex, i + 2)
         IN  IF n = Raise \/ rest = Raise THEN Raise
             ELSE IF n.i # 0 THEN PyStr(<<n.i>> \o rest.s)
             ELSE rest

\* a conversion that takes a zero byte for the end of the code
RECURSIVE fourcc_until_zero(_, _)
fourcc_until_zero(fourcc_hex, i) ==
    IF i >= 7 THEN PyStr(<<>>)
    ELSE LET n == int16(Slice(fourcc_hex, i, i + 2))
         IN  IF n = Raise THEN Raise
             ELSE IF n.i = 0 THEN PyStr(<<>>)
             ELSE LET rest == fourcc_until_zero(fourcc_hex, i + 2)
                  IN  IF rest = Raise THEN Raise ELSE PyStr(<<n.i>> \o rest.s)

convert_fourcc_terminated(fourcc_hex) == fourcc_until_zero(fourcc_hex, 0)

convert_fourcc(fourcc_hex) == fourcc_from(fourcc_hex, 0)

\* str.lower() on a byte string
lower(s) == [k \in 1..Len(s) |-> IF s[k] >= 65 /\ s[k] <= 90 THEN s[k] + 32 ELSE s[k]]

\* a translation with the purpose and the region taken in the other order
cache_handle_uri_swapped(handle) ==
    LET handle_hex == b2a_hex(handle)
        region == convert_fourcc(Slice(handle_hex, 0, 8))
        purpose == convert_fourcc(Slice(handle_hex, 8, 16))
        content_hash == Slice(handle_hex, 16, Len(handle_hex))
    IN  IF purpose = Raise \/ region = Raise THEN Raise
        ELSE PyStr(<<104, 116, 116, 112, 58, 47, 47>>
                   \o lower(region.s)
                   \o <<46, 100, 101, 112, 111, 116, 46, 98, 97, 116, 116, 108, 101,
                        46, 110, 101, 116, 58, 49, 49, 49, 57, 47>>
                   \o lower(content_hash) \o <<46>>
                   \o lower(purpose.s))

cache_handle_uri(handle) ==
    LET handle_hex == b2a_hex(handle)
        purpose == convert_fourcc(Slice(handle_hex, 0, 8))
        region == convert_fourcc(Slice(handle_hex, 8, 16))
        content_hash == Slice(handle_hex, 16, Len(handle_hex))
    IN  IF purpose = Raise \/ region = Raise THEN Raise
        ELSE PyStr(<<104, 116, 116, 112, 58, 47, 47>>
                   \o lower(region.s)
                   \o <<46, 100, 101, 112, 111, 116, 46, 98, 97, 116, 116, 108, 101,
                        46, 110, 101, 116, 58, 49, 49, 49, 57, 47>>
                   \o lower(content_hash) \o <<46>>
                   \o lower(purpose.s))

\* d[key] of a PyDict, KeyError when the key is absent
GetItem(v, key) ==
    IF v = Raise \/ v.t # "dict" THEN Raise
    ELSE IF key \in DOMAIN v.d THEN v.d[key] ELSE Raise

process_init_data(initdata) ==
    LET lobby == GetItem(initdata, "m_syncLobbyState")
        desc == GetItem(lobby, "m_gameDescription")
        handles == GetItem(desc, "m_cacheHandles")
    IN  IF handles = Raise THEN Raise
        ELSE LET translated_handles ==
                     [k \in 1..Len(handles.items) |-> cache_handle_uri(handles.items[k].s)]
             IN  IF \E k \in 1..Len(handles.items) : translated_handles[k] = Raise
                 THEN Raise
                 ELSE PyDict([initdata.d EXCEPT !["m_syncLobbyState"] =
                        PyDict([lobby.d EXCEPT !["m_gameDescription"] =
                          PyDict([desc.d EXCEPT !["m_cacheHandles"] =
                            PyList(translated_handles)])])])

---------------------------------------------------------------------------
(* The filters *)

JSONOutputFilter == "JSONOutputFilter"
NDJSONOutputFilter == "NDJSONOutputFilter"
PrettyPrintFilter == "PrettyPrintFilter"
TypeDumpFilter == "TypeDumpFilter"
StatCollectionFilter == "StatCollectionFilter"

RenderFilters == {JSONOutputFilter, NDJSONOutputFilter, PrettyPrintFilter}

\* a collector whose process has no return statement
FilterReturnStatNothing(f, event) ==
    IF f = TypeDumpFilter THEN recurse_into(event)
    ELSE IF f = StatCollectionFilter THEN None
    ELSE event

\* what f.process(event) returns
FilterReturn(f, event) ==
    IF f = TypeDumpFilter THEN recurse_into(event) ELSE event

\* a collector that tests the category tag alone
StatProcessTagOnly(st, event) ==
    IF event.t = "dict" /\ "_event" \in DOMAIN event.d
    THEN LET name == event.d["_event"]
             bits == IF "_bits" \in DOMAIN event.d THEN event.d["_bits"] ELSE PyInt(0)
             stat == IF name \in DOMAIN st THEN st[name] ELSE <<0, 0>>
         IN  IF bits.t # "int" THEN [ok |-> FALSE, stats |-> st]
             ELSE [ok |-> TRUE,
                   stats |-> [n \in DOMAIN st \cup {name} |->
                                IF n = name THEN <<stat[1] + 1, stat[2] + bits.i>>
                                ELSE st[n]]]
    ELSE [ok |-> TRUE, stats |-> st]

\* StatCollectionFilter.process: the new _event_stats; ok is FALSE when the
\* addition of a _bits that is no number raises TypeError
StatProcess(st, event) ==
    IF event.t = "dict" /\ "_event" \in DOMAIN event.d /\ "_bits" \in DOMAIN event.d
    THEN LET name == event.d["_event"]
             bits == event.d["_bits"]
             stat == IF name \in DOMAIN st THEN st[name] ELSE <<0, 0>>
         IN  IF bits.t # "int" THEN [ok |-> FALSE, stats |-> st]
             ELSE [ok |-> TRUE,
                   stats |-> [n \in DOMAIN st \cup {name} |->
                                IF n = name THEN <<stat[1] + 1, stat[2] + bits.i>>
                                ELSE st[n]]]
    ELSE [ok |-> TRUE, stats |-> st]

\* process_event without the assignment: every filter is given the decoded event
RECURSIVE run_filters_unchained(_, _, _, _)
run_filters_unchained(fs, i, event, acc) ==
    IF i > Len(fs) THEN acc
    ELSE LET f == fs[i]
             st == IF f = StatCollectionFilter THEN StatProcess(acc.stats, event)
                   ELSE [ok |-> TRUE, stats |-> acc.stats]
             got == [acc EXCEPT !.seen = Append(@, event)]
         IN  IF ~st.ok THEN [got EXCEPT !.raised = TRUE]
             ELSE run_filters_unchained(fs, i + 1, event,
                      [got EXCEPT !.stats = st.stats,
                                  !.wrote = IF f \in RenderFilters
                                            THEN Append(@, f) ELSE @])

\* the for loop of process_event from filter i on: acc holds what each filter
\* received, the collector's state, the filters that wrote the value they received
\* to the standard output, and whether a filter raised
RECURSIVE run_filters(_, _, _, _)
run_filters(fs, i, event, acc) ==
    IF i > Len(fs) THEN acc
    ELSE LET f == fs[i]
             st == IF f = StatCollectionFilter THEN StatProcess(acc.stats, event)
                   ELSE [ok |-> TRUE, stats |-> acc.stats]
             got == [acc EXCEPT !.seen = Append(@, event)]
         IN  IF ~st.ok THEN [got EXCEPT !.raised = TRUE]
             ELSE run_filters(fs, i + 1, FilterReturn(f, event),
                      [got EXCEPT !.stats = st.stats,
                                  !.wrote = IF f \in RenderFilters
                                            THEN Append(@, f) ELSE @])

process_event(fs, event, st) ==
    run_filters(fs, 1, event, [seen |-> <<>>, stats |-> st, wrote |-> <<>>, raised |-> FALSE])

\* list.append(x)
InsertLast(list, x) == list \o <<x>>

\* list.insert(0, x)
Insert0(list, x) == <<x>> \o list

\* the render stage chosen by three independent ifs
RenderStageNoElif(a) ==
    LET f1 == IF a.json THEN Insert0(<<>>, JSONOutputFilter) ELSE <<>>
        f2 == IF a.ndjson THEN Insert0(f1, NDJSONOutputFilter) ELSE f1
    IN  IF ~a.quiet THEN Insert0(f2, PrettyPrintFilter) ELSE f2

RenderStage(a) ==
    IF a.json THEN Insert0(<<>>, JSONOutputFilter)
    ELSE IF a.ndjson THEN Insert0(<<>>, NDJSONOutputFilter)
    ELSE IF ~a.quiet THEN Insert0(<<>>, PrettyPrintFilter)
    ELSE <<>>

\* a chain built with the type filter inserted last, hence first
BuildFiltersTypesFirst(a) ==
    LET f1 == RenderStage(a)
        f2 == IF a.stats THEN Insert0(f1, StatCollectionFilter) ELSE f1
    IN  IF a.types THEN Insert0(f2, TypeDumpFilter) ELSE f2

BuildFilters(a) ==
    LET f1 == RenderStage(a)
        f2 == IF a.types THEN Insert0(f1, TypeDumpFilter) ELSE f1
    IN  IF a.stats THEN Insert0(f2, StatCollectionFilter) ELSE f2

\* the last loop run over reversed(filters)
FinishReversed(fs) == [k \in 1..Len(fs) |-> fs[Len(fs) + 1 - k]]

\* the order in which the last loop of main calls finish()
FinishOrder(fs) == fs

\* the orders sorted() may give the names: ascending accumulated bits
SortedNames(st) ==
    {s \in [1..Cardinality(DOMAIN st) -> DOMAIN st] :
        /\ \A i, j \in DOMAIN s : i # j => s[i] # s[j]
        /\ \A i, j \in DOMAIN s : i < j => st[s[i]][2] <= st[s[j]][2]}

\* a report of the bit totals, not divided by 8
ReportLinesInBits(st, names) ==
    [k \in DOMAIN names |->
        [name |-> names[k], count |-> st[names[k]][1], bytes |-> st[names[k]][2]]]

\* the lines StatCollectionFilter.finish prints after the heading
ReportLines(st, names) ==
    [k \in DOMAIN names |->
        [name |-> names[k], count |-> st[names[k]][1], bytes |-> st[names[k]][2] \div 8]]

---------------------------------------------------------------------------
(* What the archive and the decoders can hold *)

Flags == {"gameevents", "messageevents", "trackerevents", "attributeevents",
          "header", "details", "initdata", "all", "quiet", "stats", "types",
          "json", "ndjson"}

\* the flags that build the filter chain, and those that select categories
ChainFlags == {"quiet", "stats", "types", "json", "ndjson"}
CatFlags == Flags \ ChainFlags

\* the flags of F that a command line sets
On(a, F) == {f \in F : a[f]}

\* The command lines of the model: every combination of the chain flags with
\* each of CatSamples, and every combination of the category flags with each
\* of ChainSamples (the two families are read by disjoint parts of main).
ChainSamples ==
    {{}, {"stats", "types", "json"}, {"stats", "quiet"}, {"types", "ndjson"}}
CatSamples ==
    {{"all"}, {"header", "gameevents", "trackerevents"},
     {"header", "initdata", "messageevents", "attributeevents"}}

CommandLines ==
    {a \in [Flags -> BOOLEAN] :
        On(a, ChainFlags) \in ChainSamples \/ On(a, CatFlags) \in CatSamples}

\* the base builds a header can name
Builds == {15405, 80949, 99999}

\* versions.build(baseBuild): the decoder of a registered build (tracker: whether
\* it has decode_replay_tracker_events), Raise for a build with no decoder
versions_build(baseBuild) ==
    CASE baseBuild = 15405 -> [t |-> "protocol", build |-> baseBuild, tracker |-> FALSE]
      [] baseBuild = 80949 -> [t |-> "protocol", build |-> baseBuild, tracker |-> TRUE]
      [] OTHER -> Raise

Headers ==
    {PyDict([m_version |-> PyDict([m_baseBuild |-> PyInt(b)])]) : b \in Builds}

Details == {PyDict([m_title |-> PyStr(<<77>>)])}

Attributes == {PyDict([source |-> PyInt(0)])}

\* a cache handle: purpose s2ma, region \0\0US, two bytes of hash
GoodHandle == <<115, 50, 109, 97, 0, 0, 85, 83, 222, 173>>
\* a handle of six bytes
ShortHandle == <<115, 50, 109, 97, 0, 0>>
\* a cache handle: purpose s2mv, region \0\0EU, two bytes of hash
OtherHandle == <<115, 50, 109, 118, 0, 0, 69, 85, 190, 239>>

InitDataWith(handles) ==
    PyDict([m_syncLobbyState |->
        PyDict([m_gameDescription |->
                    PyDict([m_cacheHandles |-> PyList(handles),
                            m_gameSpeed |-> PyInt(4)]),
                m_maxUsers |-> PyInt(2)])])

InitDatas ==
    {InitDataWith(<<PyStr(GoodHandle)>>),
     InitDataWith(<<PyStr(GoodHandle), PyStr(OtherHandle)>>),
     InitDataWith(<<PyStr(GoodHandle), PyStr(ShortHandle)>>),
     PyDict([m_syncLobbyState |-> PyDict([m_maxUsers |-> PyInt(2)])])}

\* the elements of the game, message and tracker event sequences
SeqEvents ==
    {PyDict([_event |-> PyStr(<<65>>), _bits |-> PyInt(12)]),
     PyDict([_event |-> PyStr(<<66>>), _bits |-> PyInt(20)]),
     PyDict([_event |-> PyStr(<<65>>)]),
     PyDict([_bits |-> PyInt(12)])}

---------------------------------------------------------------------------
(* main *)

SingleCats == {"details", "initdata", "attributes"}
SeqCats == {"game", "message", "tracker"}

\* --all taken to select the header too
RequestedHeaderToo(a, c) ==
    CASE c = "header" -> a.all \/ a.header
      [] c = "details" -> a.all \/ a.details
      [] c = "initdata" -> a.all \/ a.initdata
      [] c = "game" -> a.all \/ a.gameevents
      [] c = "message" -> a.all \/ a.messageevents
      [] c = "tracker" -> a.all \/ a.trackerevents
      [] c = "attributes" -> a.all \/ a.attributeevents

\* the if that guards each category
Requested(a, c) ==
    CASE c = "header" -> a.header
      [] c = "details" -> a.all \/ a.details
      [] c = "initdata" -> a.all \/ a.initdata
      [] c = "game" -> a.all \/ a.gameevents
      [] c = "message" -> a.all \/ a.messageevents
      [] c = "tracker" -> a.all \/ a.trackerevents
      [] c = "attributes" -> a.all \/ a.attributeevents

\* tracker decoding taken for granted
HasTrackerAlways(p) == TRUE

\* hasattr(protocol, 'decode_replay_tracker_events')
HasTracker(p) == p.tracker

\* whether the category's member is read and decoded
Decodes(a, p, c) ==
    Requested(a, c) /\ (c = "tracker" => HasTracker(p))

\* the finish loop placed before the attributes block
AfterFinishEarly(c) ==
    CASE c = "open" -> "filters"
      [] c = "filters" -> "header"
      [] c = "header" -> "resolve"
      [] c = "resolve" -> "details"
      [] c = "details" -> "initdata"
      [] c = "initdata" -> "game"
      [] c = "game" -> "message"
      [] c = "message" -> "tracker"
      [] c = "tracker" -> "finish"
      [] c = "finish" -> "attributes"
      [] c = "attributes" -> "done"

\* the message events block placed before the game events block
AfterMessageFirst(c) ==
    CASE c = "open" -> "filters"
      [] c = "filters" -> "header"
      [] c = "header" -> "resolve"
      [] c = "resolve" -> "details"
      [] c = "details" -> "initdata"
      [] c = "initdata" -> "message"
      [] c = "message" -> "game"
      [] c = "game" -> "tracker"
      [] c = "tracker" -> "attributes"
      [] c = "attributes" -> "finish"
      [] c = "finish" -> "done"

\* the statement main reaches after the block of c
After(c) ==
    CASE c = "open" -> "filters"
      [] c = "filters" -> "header"
      [] c = "header" -> "resolve"
      [] c = "resolve" -> "details"
      [] c = "details" -> "initdata"
      [] c = "initdata" -> "game"
      [] c = "game" -> "message"
      [] c = "message" -> "tracker"
      [] c = "tracker" -> "attributes"
      [] c = "attributes" -> "finish"
      [] c = "finish" -> "done"

\* the values decode_replay_<c> can return for a single-valued category
Decoded(c) ==
    CASE c = "details" -> Details
      [] c = "initdata" -> InitDatas
      [] c = "attributes" -> Attributes

\* the decoded value forwarded as it is
PreparedRaw(c, v) == v

\* what main does to the decoded value before process_event
Prepared(c, v) == IF c = "initdata" THEN process_init_data(v) ELSE v

Init ==
    /\ args \in CommandLines
    /\ pc = "open"
    /\ filters = <<>>
    /\ header = None
    /\ protocol = None
    /\ cur = None
    /\ pulled = 0
    /\ total = 0
    /\ log = <<>>
    /\ seen = <<>>
    /\ stats = <<>>
    /\ counted = 0
    /\ finished = <<>>
    /\ out = <<>>
    /\ errout = <<>>
    /\ status = -1
    /\ call = None

Goto(p) ==
    /\ pc' = p
    /\ status' = IF p = "done" THEN 0 ELSE status

\* an exception after which the finish loop still runs
UncaughtThenFinish ==
    /\ pc' = "finish"
    /\ status' = 1
    /\ errout' = Append(errout, [msg |-> "Traceback"])
    /\ UNCHANGED <<args, filters, header, protocol, pulled, total>>

\* an exception nothing catches: traceback on stderr, exit status 1
Uncaught ==
    /\ pc' = "error"
    /\ status' = 1
    /\ errout' = Append(errout, [msg |-> "Traceback"])
    /\ UNCHANGED <<args, filters, header, protocol, pulled, total>>

\* the event carries the category tag and the bit length
HasBoth(event) ==
    event.t = "dict" /\ {"_event", "_bits"} \subseteq DOMAIN event.d

\* process_event(event) for an event of category c, then go to p
Forward(c, n, event, p) ==
    LET r == process_event(filters, event, stats)
    IN  /\ log' = Append(log, [cat |-> c, n |-> n])
        /\ seen' = r.seen
        /\ stats' = r.stats
        /\ out' = out \o [k \in DOMAIN r.wrote |-> [by |-> r.wrote[k], cat |-> c, n |-> n]]
        /\ counted' = IF HasBoth(event) THEN counted + 1 ELSE counted
        /\ IF r.raised
           THEN /\ pc' = "error"
                /\ status' = 1
                /\ errout' = Append(errout, [msg |-> "Traceback"])
           ELSE /\ Goto(p)
                /\ UNCHANGED errout

\* archive = mpyq.MPQArchive(args.replay_file)
OpenArchive ==
    /\ UNCHANGED call
    /\ pc = "open"
    /\ \/ /\ Goto(After("open"))
          /\ UNCHANGED <<args, filters, header, protocol, errout, pulled, total>>
       \/ Uncaught
    /\ UNCHANGED <<cur, log, seen, stats, counted, finished, out>>

MakeFilters ==
    /\ UNCHANGED call
    /\ pc = "filters"
    /\ filters' = BuildFilters(args)
    /\ Goto(After("filters"))
    /\ UNCHANGED <<args, header, protocol, cur, pulled, total, log, seen, stats,
                   counted, finished, out, errout>>

\* lines 230-233: decode the header, forward it under --header
ReadHeader ==
    /\ UNCHANGED call
    /\ pc = "header"
    /\ \/ \E h \in Headers :
            /\ header' = h
            /\ IF Requested(args, "header")
               THEN Forward("header", 1, h, After("header"))
               ELSE /\ Goto(After("header"))
                    /\ UNCHANGED <<log, seen, stats, out, counted, errout>>
            /\ UNCHANGED <<args, filters, protocol, pulled, total>>
       \/ /\ Uncaught
          /\ UNCHANGED <<log, seen, stats, out, counted>>
    /\ UNCHANGED <<cur, finished>>

\* lines 236-241
Resolve ==
    /\ UNCHANGED call
    /\ pc = "resolve"
    /\ LET baseBuild == header.d["m_version"].d["m_baseBuild"].i
           p == versions_build(baseBuild)
       IN  IF p = Raise
           THEN /\ errout' = Append(errout, [msg |-> "Unsupported base build", build |-> baseBuild])
                /\ pc' = "exit"
                /\ status' = 1
                /\ UNCHANGED protocol
           ELSE /\ protocol' = p
                /\ Goto(After("resolve"))
                /\ UNCHANGED errout
    /\ UNCHANGED <<args, filters, header, cur, pulled, total, log, seen, stats,
                   counted, finished, out>>

\* the block of a single-valued category: details, init data, attributes
Single(c) ==
    /\ UNCHANGED call
    /\ pc = c
    /\ IF ~Decodes(args, protocol, c)
       THEN /\ Goto(After(c))
            /\ UNCHANGED <<log, seen, stats, out, counted, errout>>
       ELSE \/ \E v \in Decoded(c) :
                 LET e == Prepared(c, v)
                 IN  IF e = Raise
                     THEN /\ pc' = "error"
                          /\ status' = 1
                          /\ errout' = Append(errout, [msg |-> "Traceback"])
                          /\ UNCHANGED <<log, seen, stats, out, counted>>
                     ELSE Forward(c, 1, e, After(c))
            \/ /\ pc' = "error"
               /\ status' = 1
               /\ errout' = Append(errout, [msg |-> "Traceback"])
               /\ UNCHANGED <<log, seen, stats, out, counted>>
    /\ UNCHANGED <<args, filters, header, protocol, cur, pulled, total, finished>>

\* the block of a sequence category is skipped
Skip(c) ==
    /\ UNCHANGED call
    /\ pc = c
    /\ ~Decodes(args, protocol, c)
    /\ Goto(After(c))
    /\ UNCHANGED <<args, filters, header, protocol, cur, pulled, total, log, seen,
                   stats, counted, finished, out, errout>>

\* a map() that takes the next element before the last one was processed
PullAhead(c) ==
    /\ UNCHANGED call
    /\ pc = c
    /\ Decodes(args, protocol, c)
    /\ total < MaxEvents
    /\ \E e \in SeqEvents : cur' = e
    /\ pulled' = pulled + 1
    /\ total' = total + 1
    /\ UNCHANGED <<args, pc, filters, header, protocol, log, seen, stats, counted,
                   finished, out, errout, status>>

\* map() takes the next element of the decoder's sequence
Pull(c) ==
    /\ UNCHANGED call
    /\ pc = c
    /\ Decodes(args, protocol, c)
    /\ cur = None
    /\ total < MaxEvents
    /\ \E e \in SeqEvents : cur' = e
    /\ pulled' = pulled + 1
    /\ total' = total + 1
    /\ UNCHANGED <<args, pc, filters, header, protocol, log, seen, stats, counted,
                   finished, out, errout, status>>

\* map() applies process_event to the element it took
Apply(c) ==
    /\ UNCHANGED call
    /\ pc = c
    /\ cur # None
    /\ Forward(c, pulled, cur, c)
    /\ cur' = None
    /\ UNCHANGED <<args, filters, header, protocol, pulled, total, finished>>

\* the sequence is exhausted
Exhaust(c) ==
    /\ UNCHANGED call
    /\ pc = c
    /\ Decodes(args, protocol, c)
    /\ cur = None
    /\ pulled' = 0
    /\ Goto(After(c))
    /\ UNCHANGED <<args, filters, header, protocol, cur, total, log, seen, stats,
                   counted, finished, out, errout>>

\* reading or decoding the member raises
SeqRaise(c) ==
    /\ UNCHANGED call
    /\ pc = c
    /\ Decodes(args, protocol, c)
    /\ cur = None
    /\ Uncaught
    /\ UNCHANGED <<cur, log, seen, stats, counted, finished, out>>

\* what the finish() calls print, in the order of the calls
RECURSIVE Printed(_, _, _)
Printed(fs, st, names) ==
    IF fs = <<>> THEN <<>>
    ELSE (IF Head(fs) = StatCollectionFilter
          THEN <<[by |-> Head(fs), report |-> ReportLines(st, names)]>>
          ELSE <<>>) \o Printed(Tail(fs), st, names)

\* the last loop of main: f.finish() for every filter
Finish ==
    /\ UNCHANGED call
    /\ pc = "finish"
    /\ finished' = finished \o FinishOrder(filters)
    /\ \E names \in SortedNames(stats) :
          out' = out \o Printed(FinishOrder(filters), stats, names)
    /\ Goto(After("finish"))
    /\ UNCHANGED <<args, filters, header, protocol, cur, pulled, total, log, seen,
                   stats, counted, errout>>

Next ==
    \/ OpenArchive
    \/ MakeFilters
    \/ ReadHeader
    \/ Resolve
    \/ \E c \in SingleCats : Single(c)
    \/ \E c \in SeqCats : Skip(c) \/ Pull(c) \/ Apply(c) \/ Exhaust(c) \/ SeqRaise(c)
    \/ Finish

Spec == Init /\ [][Next]_vars

---------------------------------------------------------------------------
(* The functions called on their own *)

\* the bytes the handles are made of: zero, an upper-case and a lower-case letter
HandleBytes == {0, 85, 115}

\* the handle of hex 733273620000000075732d3200000000 followed by deadbeef
SampleHandle ==
    <<115, 50, 115, 98, 0, 0, 0, 0, 117, 115, 45, 50, 0, 0, 0, 0, 222, 173, 190, 239>>

\* the handle of hex 7332736275732d32 followed by deadbeef
PackedSampleHandle == <<115, 50, 115, 98, 117, 115, 45, 50, 222, 173, 190, 239>>

Handles ==
    UNION {[1..n -> HandleBytes] : n \in 0..MaxHandleLen}
    \cup {SampleHandle, PackedSampleHandle, GoodHandle, ShortHandle}

\* the four-byte packed codes
Codes == [1..4 -> {0, 65, 115, 255}]

\* the values with nothing inside to rewrite: scalars, and a tuple
Leaves == {PyInt(1), PyStr(<<65>>), None, PyTuple(<<PyInt(2), PyStr(<<66>>)>>)}

\* lists and mappings of leaves
Level1 ==
    Leaves
    \cup {PyList(l) : l \in UNION {[1..n -> Leaves] : n \in 0..MaxItems}}
    \cup {PyDict(f) : f \in UNION {[K -> Leaves] : K \in SUBSET {"m_a", "m_b"}}}

\* lists and mappings of those
Trees ==
    Level1
    \cup {PyList(<<x>>) : x \in Level1}
    \cup {PyList(<<x, y>>) : x \in Level1, y \in Leaves}
    \cup {PyDict([m_a |-> x]) : x \in Level1}
    \cup {PyDict([m_a |-> x, m_b |-> y]) : x \in Level1, y \in Leaves}

Calls ==
    {[fn |-> "cache_handle_uri", arg |-> PyStr(h), ret |-> None] : h \in Handles}
    \cup {[fn |-> "convert_fourcc", arg |-> PyStr(b2a_hex(c)), ret |-> None] : c \in Codes}
    \cup {[fn |-> "TypeDumpFilter.process", arg |-> v, ret |-> None] : v \in Trees}

InitFn ==
    /\ args = [f \in Flags |-> FALSE]
    /\ pc = "call"
    /\ filters = <<>>
    /\ header = None
    /\ protocol = None
    /\ cur = None
    /\ pulled = 0
    /\ total = 0
    /\ log = <<>>
    /\ seen = <<>>
    /\ stats = <<>>
    /\ counted = 0
    /\ finished = <<>>
    /\ out = <<>>
    /\ errout = <<>>
    /\ status = -1
    /\ call \in Calls

Returns(fn, value) ==
    /\ pc = "call"
    /\ call.fn = fn
    /\ call.ret = None
    /\ call' = [call EXCEPT !.ret = value]
    /\ UNCHANGED <<args, pc, filters, header, protocol, cur, pulled, total, log, seen,
                   stats, counted, finished, out, errout, status>>

CallConvertFourcc == Returns("convert_fourcc", convert_fourcc(call.arg.s))

CallCacheHandleUri == Returns("cache_handle_uri", cache_handle_uri(call.arg.s))

CallTypeDump == Returns("TypeDumpFilter.process", recurse_into(call.arg))

NextFn ==
    \/ CallConvertFourcc
    \/ CallCacheHandleUri
    \/ CallTypeDump

SpecFn == InitFn /\ [][NextFn]_vars

---------------------------------------------------------------------------
(* Vocabulary of the properties *)

Cats(l) == {l[k].cat : k \in DOMAIN l}

Range(f) == {f[k] : k \in DOMAIN f}

\* the forwarded events of the sequence categories
SeqForwarded(l) == Cardinality({k \in DOMAIN l : l[k].cat \in SeqCats})

\* the fixed place of a category in the run
Rank(c) ==
    CASE c = "header" -> 1
      [] c = "details" -> 2
      [] c = "initdata" -> 3
      [] c = "game" -> 4
      [] c = "message" -> 5
      [] c = "tracker" -> 6
      [] c = "attributes" -> 7

\* the flags ask for category c
Asked(c) ==
    CASE c = "header" -> args.header
      [] c = "details" -> args.all \/ args.details
      [] c = "initdata" -> args.all \/ args.initdata
      [] c = "game" -> args.all \/ args.gameevents
      [] c = "message" -> args.all \/ args.messageevents
      [] c = "tracker" -> args.all \/ args.trackerevents
      [] c = "attributes" -> args.all \/ args.attributeevents

\* main is past the decoding of the header, hence past the filter list
Built == header # None

NumRender(fs) == Cardinality({k \in DOMAIN fs : fs[k] \in RenderFilters})

\* the one render stage the flags ask for, if any
ActiveRender(a) ==
    IF a.json THEN <<JSONOutputFilter>>
    ELSE IF a.ndjson THEN <<NDJSONOutputFilter>>
    ELSE IF a.quiet THEN <<>>
    ELSE <<PrettyPrintFilter>>

RECURSIVE SumCounts(_)
SumCounts(st) ==
    IF DOMAIN st = {} THEN 0
    ELSE LET n == CHOOSE x \in DOMAIN st : TRUE
         IN  st[n][1] + SumCounts([m \in DOMAIN st \ {n} |-> st[m]])

RECURSIVE SumReport(_)
SumReport(lines) ==
    IF lines = <<>> THEN 0 ELSE Head(lines).count + SumReport(Tail(lines))

UnsupportedMessage ==
    [msg |-> "Unsupported base build", build |-> header.d["m_version"].d["m_baseBuild"].i]

---------------------------------------------------------------------------
(* Properties *)

\* C1: no finish() before every event of every requested category has been
\* through process: the step that calls finish() finds no pulled event
\* unprocessed, every pulled element forwarded and every requested
\* single-valued category forwarded, and once a finish() has been called no
\* step forwards an event or pulls one.
C1_FinishAfterAllEvents ==
    [][ /\ finished' # finished =>
              /\ cur = None
              /\ SeqForwarded(log) = total
              /\ \A c \in SingleCats \cup {"header"} : Asked(c) => c \in Cats(log)
        /\ finished # <<>> => log' = log /\ cur' = None ]_vars

C1_Witness ==
    /\ pc = "done"
    /\ finished # <<>>
    /\ \E k \in DOMAIN log : log[k].cat = "attributes"
    /\ \E k \in DOMAIN log : log[k].cat \in SeqCats

\* C2: a run that ends without error has called finish() once on every filter
\* of the chain, in the order of the chain.
C2_FinishOncePerFilterInOrder ==
    pc = "done" => finished = filters

C2_Witness ==
    pc = "done" /\ Len(filters) = 3 /\ finished = filters /\ log # <<>>

\* C3: the forwarded events follow the fixed category order, every forwarded
\* category was requested, and the elements of a category are forwarded in the
\* order the decoder yields them, each once.
C3_CategoryAndDecodeOrder ==
    /\ \A i, j \in DOMAIN log : i < j => Rank(log[i].cat) <= Rank(log[j].cat)
    /\ \A k \in DOMAIN log :
          /\ Asked(log[k].cat)
          /\ log[k].n = IF k > 1 /\ log[k - 1].cat = log[k].cat
                        THEN log[k - 1].n + 1 ELSE 1
          /\ log[k].cat \notin SeqCats => log[k].n = 1

C3_Witness ==
    /\ \E k \in DOMAIN log : log[k].cat = "game" /\ log[k].n = 2
    /\ Cats(log) = {"header", "details", "game", "attributes"}

\* C4 as claimed: at the exit for an unsupported build no event has been
\* through process and nothing has been written to the output.
C4_NoEventBeforeUnsupportedExit ==
    pc = "exit" =>
        /\ log = <<>>
        /\ out = <<>>
        /\ status = 1
        /\ errout = <<UnsupportedMessage>>

\* C4 amended: at the exit for an unsupported build the status is 1 and the
\* build number is reported; the header is the only event that can have been
\* through process and the output, and it has exactly when --header is set;
\* no finish() has been called.
C4_OnlyHeaderBeforeUnsupportedExit ==
    pc = "exit" =>
        /\ status = 1
        /\ errout = <<UnsupportedMessage>>
        /\ log = IF args.header THEN <<[cat |-> "header", n |-> 1]>> ELSE <<>>
        /\ \A k \in DOMAIN out : out[k].by \in RenderFilters /\ out[k].cat = "header"
        /\ ~args.header => out = <<>>
        /\ finished = <<>>

C4_Witness ==
    /\ pc = "exit"
    /\ args.header /\ args.all
    /\ log = <<[cat |-> "header", n |-> 1]>>
    /\ out # <<>>

\* C5 as claimed: a run with --all that ends without error has forwarded the
\* header, the details, the init data and the attributes.
C5_AllSelectsEveryCategory ==
    (pc = "done" /\ args.all) =>
        {"header", "details", "initdata", "attributes"} \subseteq Cats(log)

\* C6: the chain is Stat-Collect if --stats, then Type-Annotate if --types,
\* then the active render stage if any; Stat-Collect receives the decoded
\* event, and under --types the render stage receives its type-annotated form.
C6_ChainOrder ==
    [][ /\ Built' =>
              filters' = (IF args.stats THEN <<StatCollectionFilter>> ELSE <<>>)
                         \o (IF args.types THEN <<TypeDumpFilter>> ELSE <<>>)
                         \o ActiveRender(args)
        /\ (cur # None /\ log' # log) =>
              /\ args.stats => seen'[1] = cur
              /\ (args.types /\ ActiveRender(args) # <<>>) =>
                     /\ Len(seen') = Len(filters)
                     /\ seen'[Len(filters)] = recurse_into(cur)
                     /\ filters[Len(filters)] \in RenderFilters ]_vars

C6_Witness ==
    /\ filters = <<StatCollectionFilter, TypeDumpFilter, NDJSONOutputFilter>>
    /\ args.quiet
    /\ Len(seen) = 3
    /\ seen[1].t = "dict" /\ "_bits" \in DOMAIN seen[1].d
    /\ seen[3] = recurse_into(seen[1])

C8_StagesCompose ==
    [][ log' # log =>
          /\ Len(seen') = Len(filters)
          /\ \A i \in 1..(Len(filters) - 1) :
                seen'[i + 1] = IF filters[i] = TypeDumpFilter
                               THEN recurse_into(seen'[i]) ELSE seen'[i]
          /\ (cur # None /\ filters # <<>>) => seen'[1] = cur
          /\ (pc = "header" /\ filters # <<>>) => seen'[1] = header' ]_vars

C8_Witness ==
    /\ filters = <<StatCollectionFilter, TypeDumpFilter, JSONOutputFilter>>
    /\ Len(seen) = 3
    /\ seen[2] = seen[1]
    /\ seen[3] = recurse_into(seen[2])
    /\ seen[3] # seen[1]
    /\ \E k \in DOMAIN log : log[k].cat \in SeqCats

\* C9: the counts Stat-Collect holds, and those it reports, add up to the
\* number of processed events that carried both fields; every category it
\* holds was counted at least once; an event lacking a field changes nothing.
C9_CountsSumToEventsWithBoth ==
    [][ /\ StatCollectionFilter \in Range(filters') =>
              /\ SumCounts(stats') = counted'
              /\ \A name \in DOMAIN stats' : stats'[name][1] >= 1
        /\ (cur # None /\ log' # log /\ ~HasBoth(cur)) => stats' = stats
        /\ \A k \in DOMAIN out' :
              out'[k].by = StatCollectionFilter =>
                  /\ SumReport(out'[k].report) = counted'
                  /\ {out'[k].report[i].name : i \in DOMAIN out'[k].report} = DOMAIN stats'
                  /\ Len(out'[k].report) = Cardinality(DOMAIN stats') ]_vars

C9_Witness ==
    /\ pc = "done"
    /\ StatCollectionFilter \in Range(filters)
    /\ Len(log) = 3
    /\ counted = 1
    /\ Cardinality(DOMAIN stats) = 1

\* C10: with tracker events requested and a decoder without tracker decoding,
\* the tracker block does nothing: no error, no element pulled or forwarded,
\* and the run goes on to the attributes block.
C10_TrackerAbsenceSkipped ==
    [][ (pc = "tracker" /\ ~protocol.tracker) =>
          /\ pc' = "attributes"
          /\ UNCHANGED <<cur, pulled, total, log, seen, stats, counted, finished,
                         out, errout, status>> ]_vars

C10_Witness ==
    /\ pc = "done"
    /\ args.trackerevents
    /\ ~protocol.tracker
    /\ "attributes" \in Cats(log)
    /\ finished # <<>>

\* the result of a call of fn, once it has returned
Returned(fn) == call # None /\ call.fn = fn /\ call.ret # None

\* the characters of the non-zero bytes of a code, in their order
NonZero(code) == SelectSeq(code, LAMBDA b : b # 0)

IsPrefix(p, q) == Len(p) <= Len(q) /\ SubSeq(q, 1, Len(p)) = p

\* http://us-2.depot.battle.net:1119/deadbeef.s2sb
Us2Locator ==
    <<104, 116, 116, 112, 58, 47, 47, 117, 115, 45, 50, 46, 100, 101, 112,
      111, 116, 46, 98, 97, 116, 116, 108, 101, 46, 110, 101, 116, 58, 49,
      49, 49, 57, 47, 100, 101, 97, 100, 98, 101, 101, 102, 46, 115, 50,
      115, 98>>

\* http://.depot.battle.net:1119/75732d3200000000deadbeef.s2sb
ZeroRegionLocator ==
    <<104, 116, 116, 112, 58, 47, 47, 46, 100, 101, 112, 111, 116, 46, 98,
      97, 116, 116, 108, 101, 46, 110, 101, 116, 58, 49, 49, 49, 57, 47,
      55, 53, 55, 51, 50, 100, 51, 50, 48, 48, 48, 48, 48, 48, 48, 48,
      100, 101, 97, 100, 98, 101, 101, 102, 46, 115, 50, 115, 98>>

\* C11: cache_handle_uri raises for every handle of fewer than 8 bytes, the
\* empty one included, and returns a locator for every handle of 8 bytes or more.
C11_ShortHandleFails ==
    Returned("cache_handle_uri") =>
        IF Len(call.arg.s) < 8
        THEN call.ret = Raise
        ELSE /\ call.ret.t = "str"
             /\ IsPrefix(<<104, 116, 116, 112, 58, 47, 47>>, call.ret.s)

C11_Witness ==
    /\ Returned("cache_handle_uri")
    /\ Len(call.arg.s) = 7
    /\ \A k \in 1..7 : call.arg.s[k] # 0
    /\ call.ret = Raise

\* C12 as claimed: the sample of hex 733273620000000075732d3200000000 and hash
\* deadbeef gives http://us-2.depot.battle.net:1119/deadbeef.s2sb.
C12_SampleGivesUs2 ==
    (Returned("cache_handle_uri") /\ call.arg = PyStr(SampleHandle)) =>
        call.ret = PyStr(Us2Locator)

\* C12 amended: the handle of hex 7332736275732d32 (purpose s2sb, region us-2 in
\* its first eight bytes) and hash deadbeef gives
\* http://us-2.depot.battle.net:1119/deadbeef.s2sb; the sample as written, whose
\* bytes 5 to 8 are zero, gives the empty region and the hash
\* 75732d3200000000deadbeef: http://.depot.battle.net:1119/75732d3200000000deadbeef.s2sb.
C12_PackedSampleGivesUs2 ==
    Returned("cache_handle_uri") =>
        /\ call.arg = PyStr(PackedSampleHandle) =>
              call.ret = PyStr(Us2Locator)
        /\ call.arg = PyStr(SampleHandle) =>
              call.ret = PyStr(ZeroRegionLocator)

C12_Witness ==
    /\ Returned("cache_handle_uri")
    /\ call.arg = PyStr(PackedSampleHandle)
    /\ call.ret.t = "str"

\* C13: convert_fourcc of a four-byte code is the characters of its non-zero
\* bytes in their order: empty for the all-zero code, one character for a code
\* with one non-zero byte wherever it is.
C13_FourccKeepsNonZeroBytes ==
    \A c \in Codes :
        (Returned("convert_fourcc") /\ call.arg = PyStr(b2a_hex(c))) =>
            /\ call.ret = PyStr(NonZero(c))
            /\ Len(call.ret.s) = Cardinality({k \in 1..4 : c[k] # 0})

C13_Witness ==
    /\ Returned("convert_fourcc")
    /\ call.arg = PyStr(b2a_hex(<<0, 65, 0, 115>>))
    /\ call.ret = PyStr(<<65, 115>>)

\* C14: once an error has been raised (a traceback or the unsupported-build
\* message is on the error stream) the run is over with status 1: no event is
\* forwarded, no finish() is called and nothing is written afterwards.
C14_ErrorAbortsRun ==
    [][ /\ errout # <<>> =>
              /\ status = 1
              /\ UNCHANGED <<log, cur, seen, stats, finished, out, status>>
        /\ errout' # errout => status' = 1 /\ finished' = <<>> ]_vars

C14_Witness ==
    /\ pc = "error"
    /\ errout # <<>>
    /\ "game" \in Cats(log)
    /\ Asked("attributes")
    /\ "attributes" \notin Cats(log)
    /\ StatCollectionFilter \in Range(filters)
    /\ finished = <<>>

\* C15: at most one element pulled from a decoder's sequence has not been
\* through the chain, and it is the one map() holds.
C15_OnePulledAtATime ==
    /\ total - SeqForwarded(log) \in {0, 1}
    /\ cur = None <=> total = SeqForwarded(log)

C15_Witness ==
    /\ cur # None
    /\ total = 2
    /\ SeqForwarded(log) = 1
    /\ Len(seen) = 3

CacheHandlesOf(v) ==
    v.d["m_syncLobbyState"].d["m_gameDescription"].d["m_cacheHandles"].items

HasHandlePath(v) ==
    /\ v.t = "dict" /\ "m_syncLobbyState" \in DOMAIN v.d
    /\ "m_gameDescription" \in DOMAIN v.d["m_syncLobbyState"].d
    /\ "m_cacheHandles" \in DOMAIN v.d["m_syncLobbyState"].d["m_gameDescription"].d

\* e is v but for a field at key, which holds the same kind of value
SameBut(v, e, key) ==
    /\ e.t = v.t
    /\ DOMAIN e.d = DOMAIN v.d
    /\ \A k \in DOMAIN v.d \ {key} : e.d[k] = v.d[k]

\* e is the init data v with every cache handle translated and nothing else changed
IsTranslationOf(v, e) ==
    /\ HasHandlePath(v)
    /\ SameBut(v, e, "m_syncLobbyState")
    /\ SameBut(v.d["m_syncLobbyState"], e.d["m_syncLobbyState"], "m_gameDescription")
    /\ SameBut(v.d["m_syncLobbyState"].d["m_gameDescription"],
               e.d["m_syncLobbyState"].d["m_gameDescription"], "m_cacheHandles")
    /\ Len(CacheHandlesOf(e)) = Len(CacheHandlesOf(v))
    /\ \A i \in DOMAIN CacheHandlesOf(v) :
          /\ CacheHandlesOf(e)[i] = cache_handle_uri(CacheHandlesOf(v)[i].s)
          /\ CacheHandlesOf(e)[i].t = "str"
          /\ CacheHandlesOf(e)[i] # CacheHandlesOf(v)[i]

\* C16: the init-data event the filters receive is a decoded init data with its
\* cache handles replaced, one for one and in order, by their locators and
\* nothing else changed; when the translation fails nothing is forwarded.
C16_InitDataTranslatedBeforeForwarding ==
    [][ pc = "initdata" =>
          /\ (log' # log /\ filters # <<>>) =>
                \E v \in InitDatas : IsTranslationOf(v, seen'[1])
          /\ pc' = "error" => UNCHANGED <<log, seen, out, stats>> ]_vars

C16_Witness ==
    /\ log # <<>>
    /\ log[Len(log)].cat = "initdata"
    /\ filters # <<>>
    /\ Len(seen) = Len(filters)
    /\ Len(CacheHandlesOf(seen[1])) = 2
    /\ CacheHandlesOf(seen[1])[2] = cache_handle_uri(OtherHandle)

\* C17: the process of the render filters and of the collector returns the
\* event it received, so the next stage receives that same event; in a chain
\* without the type filter every stage receives the decoded event; and no
\* process returns None.
C17_OtherFiltersReturnTheirInput ==
    [][ log' # log =>
          \A i \in DOMAIN seen' :
              /\ FilterReturn(filters[i], seen'[i]) # None
              /\ filters[i] # TypeDumpFilter =>
                    /\ FilterReturn(filters[i], seen'[i]) = seen'[i]
                    /\ i < Len(seen') => seen'[i + 1] = seen'[i]
              /\ TypeDumpFilter \notin Range(filters) =>
                    /\ seen'[i] = seen'[1]
                    /\ cur # None => seen'[i] = cur ]_vars

C17_Witness ==
    /\ filters = <<StatCollectionFilter, JSONOutputFilter>>
    /\ Len(seen) = 2
    /\ seen[2] = seen[1]
    /\ seen[1].t = "dict" /\ "_event" \in DOMAIN seen[1].d

\* w is v with the (type-name, value) pair in the place of every scalar leaf,
\* the lists, the tuples and the mappings keeping their shape
RECURSIVE AnnotatedSequences(_, _)
AnnotatedSequences(v, w) ==
    IF v.t \in {"list", "tuple"}
    THEN /\ w.t = v.t
         /\ Len(w.items) = Len(v.items)
         /\ \A k \in DOMAIN v.items : AnnotatedSequences(v.items[k], w.items[k])
    ELSE IF v.t = "dict"
    THEN /\ w.t = "dict"
         /\ DOMAIN w.d = DOMAIN v.d
         /\ \A key \in DOMAIN v.d : AnnotatedSequences(v.d[key], w.d[key])
    ELSE w = PyTuple(<<PyStr(TypeName(v)), v>>)

\* w is v with the (type-name, value) pair in the place of every value that is
\* neither a list nor a mapping, the lists and the mappings keeping their shape
RECURSIVE AnnotatedLists(_, _)
AnnotatedLists(v, w) ==
    IF v.t = "list"
    THEN /\ w.t = "list"
         /\ Len(w.items) = Len(v.items)
         /\ \A k \in DOMAIN v.items : AnnotatedLists(v.items[k], w.items[k])
    ELSE IF v.t = "dict"
    THEN /\ w.t = "dict"
         /\ DOMAIN w.d = DOMAIN v.d
         /\ \A key \in DOMAIN v.d : AnnotatedLists(v.d[key], w.d[key])
    ELSE w = PyTuple(<<PyStr(TypeName(v)), v>>)

\* C18 as claimed: every sequence keeps its length and order and the scalar
\* leaves alone are replaced by the pair.
C18_EverySequenceKeepsShape ==
    Returned("TypeDumpFilter.process") => AnnotatedSequences(call.arg, call.ret)

\* C18 amended: every mapping keeps its key set and every list its length and
\* order; every other value, a tuple included, is replaced whole by the pair
\* (type-name, value).
C18_ListsAndMappingsKeepShape ==
    Returned("TypeDumpFilter.process") => AnnotatedLists(call.arg, call.ret)

C18_Witness ==
    /\ Returned("TypeDumpFilter.process")
    /\ call.arg = PyDict([m_a |-> PyList(<<PyInt(1), PyTuple(<<PyInt(2), PyStr(<<66>>)>>)>>),
                          m_b |-> None])
    /\ call.ret.d["m_a"].items[2] =
           PyTuple(<<PyStr(<<116, 117, 112, 108, 101>>),
                     PyTuple(<<PyInt(2), PyStr(<<66>>)>>)>>)

\* C19: the report has one line per recorded category, each once, in ascending
\* order of accumulated bits, with the category's count and its bits divided
\* by 8 and rounded down; the bits of a category are the sum of the _bits of
\* its counted events.
C19_ReportSortedByBits ==
    [][ /\ \A k \in DOMAIN out' :
              out'[k].by = StatCollectionFilter =>
                  LET lines == out'[k].report
                  IN  /\ Len(lines) = Cardinality(DOMAIN stats')
                      /\ \A name \in DOMAIN stats' :
                            Cardinality({i \in DOMAIN lines : lines[i].name = name}) = 1
                      /\ \A i, j \in DOMAIN lines :
                            i < j => stats'[lines[i].name][2] <= stats'[lines[j].name][2]
                      /\ \A i \in DOMAIN lines :
                            /\ lines[i].count = stats'[lines[i].name][1]
                            /\ 8 * lines[i].bytes <= stats'[lines[i].name][2]
                            /\ stats'[lines[i].name][2] < 8 * lines[i].bytes + 8
        /\ (cur # None /\ log' # log /\ HasBoth(cur)
               /\ StatCollectionFilter \in Range(filters)) =>
              LET name == cur.d["_event"]
                  before == IF name \in DOMAIN stats THEN stats[name] ELSE <<0, 0>>
              IN  stats'[name] = <<before[1] + 1, before[2] + cur.d["_bits"].i>> ]_vars

C19_Witness ==
    /\ pc = "done"
    /\ \E k \in DOMAIN out :
          /\ out[k].by = StatCollectionFilter
          /\ Len(out[k].report) = 2
          /\ out[k].report[1].bytes = 1
          /\ out[k].report[2].bytes = 2

\* the collector's state after an event, whatever the chain
Tally(st, e) ==
    IF HasBoth(e)
    THEN [n \in DOMAIN st \cup {e.d["_event"]} |->
            IF n = e.d["_event"]
            THEN IF n \in DOMAIN st
                 THEN <<st[n][1] + 1, st[n][2] + e.d["_bits"].i>>
                 ELSE <<1, e.d["_bits"].i>>
            ELSE st[n]]
    ELSE st

\* C20: what Stat-Collect holds after an event depends on what it held and on
\* the decoded event alone, not on --types or on the render option: under
\* --stats it is the first stage and tallies the decoded event.
C20_StatsIndependentOfOtherStages ==
    [][ log' # log =>
          IF args.stats
          THEN /\ filters[1] = StatCollectionFilter
               /\ stats' = Tally(stats, seen'[1])
               /\ cur # None => stats' = Tally(stats, cur)
               /\ pc = "header" => stats' = Tally(stats, header')
          ELSE stats' = stats /\ stats = <<>> ]_vars

C20_Witness ==
    /\ filters = <<StatCollectionFilter, TypeDumpFilter, JSONOutputFilter>>
    /\ counted = 2
    /\ Cardinality(DOMAIN stats) = 2
    /\ Len(log) = 3

====
